---- MODULE Spec2Model ----
(***************************************************************************)
(* Model of pyspim/interp/affine.py: kernel selection, affine transform    *)
(* decomposition, output shape computation, chunk planning, the blend      *)
(* launchers and the distributed transform coordinator.                    *)
(*                                                                         *)
(* One call of one entry point is modelled per behaviour: Init draws the   *)
(* entry point (variable call) and its arguments, the actions execute the  *)
(* body of that function statement by statement.                           *)
(***************************************************************************)
EXTENDS Integers, Sequences, FiniteSets, TLC

\* ------------------------------------------------------------------ bounds
MaxDim == 3          \* largest extent of a volume axis drawn as an input
MaxChunk == 4        \* largest chunk extent drawn as an input (> MaxDim: assertion case)
MaxGpu == 2          \* largest device count drawn as an input
MaxCoordDim == 2     \* largest axis extent drawn for the distributed coordinator
MaxShear == 1        \* largest |shear entry| of an upper-triangular factor drawn as input
MaxZoom == 2         \* largest zoom (diagonal entry) drawn as input

\* the concrete planning scenario: shape (10,10,10), chunk size 4
Scenario == [shape |-> <<10, 10, 10>>, chunk |-> 4]

\* ------------------------------------------------------- python-like values
None == [tag |-> "None"]
Raise(exc, msg) == [tag |-> "raise", exc |-> exc, msg |-> msg]
Kernel(module, name) == [tag |-> "kernel", module |-> module, name |-> name]
IntVal(v) == [tag |-> "int", v |-> v]
TupleVal(t) == [tag |-> "tuple", t |-> t]

IsRaise(v) == v.tag = "raise"

\* ------------------------------------------------------ kernel name tables
nearest_ker_names ==
    << "affineTransformNearest<unsigned short>",
       "affineTransformNearest<float>" >>

linear_ker_names ==
    << "affineTransformLerp<unsigned short>",
       "affineTransformLerp<float>",
       "affineTransformLerpUShort",
       "affineTransformMaxBlend",
       "affineTransformMeanBlend" >>

cubspl_ker_names ==
    << "affineTransformCubSpl<unsigned short>",
       "affineTransformCubSpl<float>",
       "affineTransformCubSplUShort",
       "affineTransformMaxBlend",
       "affineTransformMeanBlend" >>

\* element types: the two supported ones and one the selector does not know
DTypes == {"uint16", "float32", "int8"}
\* interpolation methods: the three supported ones and one unknown
Methods == {"nearest", "linear", "cubspl", "lanczos"}

\* python index i (0-based) of a name table
At(names, i) == names[i + 1]

\* _get_kernel, branch method == 'nearest' (no final else: falls off the end)
GetKernelNearest(dtype, preserve_dtype) ==
    IF dtype = "uint16" \/ preserve_dtype
    THEN Kernel("nearest", At(nearest_ker_names, 0))
    ELSE IF dtype = "float32"
    THEN Kernel("nearest", At(nearest_ker_names, 1))
    ELSE None

\* _get_kernel, branches method == 'linear' and method == 'cubspl'
GetKernelTyped(module, names, dtype, preserve_dtype) ==
    IF dtype = "uint16"
    THEN IF preserve_dtype
         THEN Kernel(module, At(names, 2))
         ELSE Kernel(module, At(names, 0))
    ELSE IF dtype = "float32"
    THEN Kernel(module, At(names, 1))
    ELSE Raise("ValueError", "invalid datatype")

\* _get_kernel(dtype, method, preserve_dtype)
GetKernel(dtype, method, preserve_dtype) ==
    IF method = "linear"
    THEN GetKernelTyped("linear", linear_ker_names, dtype, preserve_dtype)
    ELSE IF method = "cubspl"
    THEN GetKernelTyped("cubspl", cubspl_ker_names, dtype, preserve_dtype)
    ELSE IF method = "nearest"
    THEN GetKernelNearest(dtype, preserve_dtype)
    ELSE Raise("ValueError", "invalid interpolation method")

\* --------------------------------------------------------- chunk planning
\* loop condition of _pad_amount with <= in place of <
PadLoopCond_Le(dim, chunk_dim, n) == chunk_dim * n <= dim

\* loop condition of _pad_amount: while chunk_dim * n < dim
PadLoopCond(dim, chunk_dim, n) == chunk_dim * n < dim

RECURSIVE PadLoop(_, _, _)
\* the loop of _pad_amount from multiplier n on, and the return expression
PadLoop(dim, chunk_dim, n) ==
    IF PadLoopCond(dim, chunk_dim, n)
    THEN PadLoop(dim, chunk_dim, n + 1)
    ELSE chunk_dim * n - dim

\* the assertion of _pad_amount left out
PadAssertOk_Off(dim, chunk_dim) == TRUE

\* the assertion of _pad_amount
PadAssertOk(dim, chunk_dim) == dim >= chunk_dim

\* _pad_amount(dim, chunk_dim)
PadAmount(dim, chunk_dim) ==
    IF PadAssertOk(dim, chunk_dim)
    THEN IntVal(PadLoop(dim, chunk_dim, 1))
    ELSE Raise("AssertionError", <<dim, chunk_dim>>)

\* chunk_shape normalised to a 3-tuple (isinstance(chunk_shape, int))
ChunkTuple(chunk_shape) ==
    IF chunk_shape.tag = "int"
    THEN <<chunk_shape.v, chunk_shape.v, chunk_shape.v>>
    ELSE chunk_shape.t

\* n_chunk: number of chunk indices on each axis (padded_shape // chunk_shape)
NChunk(shape, cs) ==
    [i \in 1..3 |-> (shape[i] + PadAmount(shape[i], cs[i]).v) \div cs[i]]

\* right = shape[dim_idx] if i1 > shape[dim_idx] else i1, without the clamp
ClampRight_None(i1, s) == i1

\* right = shape[dim_idx] if i1 > shape[dim_idx] else i1
ClampRight(i1, s) == IF i1 > s THEN s ELSE i1

\* the window of chunk multiplier mult: one slice(left, right) per axis
ChunkWindow(shape, cs, mult) ==
    [i \in 1..3 |->
        [start |-> mult[i] * cs[i],
         stop  |-> ClampRight(mult[i] * cs[i] + cs[i], shape[i])]]

\* the k-th (0-based) element of product(range(n[1]), range(n[2]), range(n[3]))
ChunkMult(n, k) ==
    << k \div (n[2] * n[3]), (k \div n[3]) % n[2], k % n[3] >>

\* _calculate_array_chunks(z, r, c, chunk_shape)
CalculateArrayChunks(z, r, c, chunk_shape) ==
    LET shape == <<z, r, c>>
        cs == ChunkTuple(chunk_shape)
        bad == {i \in 1..3 : IsRaise(PadAmount(shape[i], cs[i]))}
    IN  IF bad # {}
        THEN PadAmount(shape[CHOOSE i \in bad : \A j \in bad : i <= j],
                       cs[CHOOSE i \in bad : \A j \in bad : i <= j])
        ELSE LET n == NChunk(shape, cs)
             IN  [tag |-> "windows",
                  w |-> [k \in 1..(n[1] * n[2] * n[3]) |->
                            ChunkWindow(shape, cs, ChunkMult(n, k - 1))]]

\* ------------------------------------------------------- exact arithmetic
\* Real numbers are modelled as exact rationals <<numerator, denominator>> in
\* lowest terms with a positive denominator.
Abs(a) == IF a < 0 THEN -a ELSE a

RECURSIVE Gcd(_, _)
Gcd(a, b) == IF b = 0 THEN a ELSE Gcd(b, a % b)

Rat(n, d) ==
    LET g == Gcd(Abs(n), Abs(d))
        sgn == IF d < 0 THEN -1 ELSE 1
    IN  << sgn * (n \div g), sgn * (d \div g) >>

RInt(n) == <<n, 1>>
RAdd(p, q) == Rat(p[1] * q[2] + q[1] * p[2], p[2] * q[2])
RNeg(p) == << -p[1], p[2] >>
RSub(p, q) == RAdd(p, RNeg(q))
RMul(p, q) == Rat(p[1] * q[1], p[2] * q[2])
RDiv(p, q) == Rat(p[1] * q[2], p[2] * q[1])
RLt(p, q) == p[1] * q[2] < q[1] * p[2]
RLe(p, q) == p[1] * q[2] <= q[1] * p[2]

IsSquare(n) == \E r \in 0..n : r * r = n
ISqrt(n) == CHOOSE r \in 0..n : r * r = n
\* the square root of a rational that has a rational square root
HasRSqrt(p) == p[1] >= 0 /\ IsSquare(p[1]) /\ IsSquare(p[2])
RSqrt(p) == << ISqrt(p[1]), ISqrt(p[2]) >>

\* ceil of the rational p
RCeil(p) == -((-p[1]) \div p[2])

\* 3x3 matrices are tuples of rows
Idx == 1..3
MatMul(A, B) ==
    [i \in Idx |-> [j \in Idx |->
        RAdd(RAdd(RMul(A[i][1], B[1][j]), RMul(A[i][2], B[2][j])),
             RMul(A[i][3], B[3][j]))]]
Transpose(A) == [i \in Idx |-> [j \in Idx |-> A[j][i]]]
Minor2(A, r1, r2, c1, c2) ==
    RSub(RMul(A[r1][c1], A[r2][c2]), RMul(A[r1][c2], A[r2][c1]))
\* xp.linalg.det
Det(A) ==
    RAdd(RSub(RMul(A[1][1], Minor2(A, 2, 3, 2, 3)),
              RMul(A[1][2], Minor2(A, 2, 3, 1, 3))),
         RMul(A[1][3], Minor2(A, 2, 3, 1, 2)))
Others(i) == IF i = 1 THEN <<2, 3>> ELSE IF i = 2 THEN <<1, 3>> ELSE <<1, 2>>
Cofactor(A, i, j) ==
    LET m == Minor2(A, Others(i)[1], Others(i)[2], Others(j)[1], Others(j)[2])
    IN  IF (i + j) % 2 = 0 THEN m ELSE RNeg(m)
\* xp.linalg.inv of a matrix with nonzero determinant
Inv(A) == [i \in Idx |-> [j \in Idx |-> RDiv(Cofactor(A, j, i), Det(A))]]
Identity3 == [i \in Idx |-> [j \in Idx |-> IF i = j THEN RInt(1) ELSE RInt(0)]]
IntMat(M) == [i \in Idx |-> [j \in Idx |-> RInt(M[i][j])]]

\* ------------------------------------------------- decompose_transform
\* xp.linalg.cholesky(G): the lower-triangular L with L.L^T = G, or LinAlgError
\* when a pivot is not positive.  Only called on G whose pivots have rational roots.
Cholesky(G) ==
    LET p1 == G[1][1]
    IN  IF ~RLt(RInt(0), p1) THEN Raise("LinAlgError", "not positive definite")
        ELSE
        LET l11 == RSqrt(p1)
            l21 == RDiv(G[2][1], l11)
            l31 == RDiv(G[3][1], l11)
            p2  == RSub(G[2][2], RMul(l21, l21))
        IN  IF ~RLt(RInt(0), p2) THEN Raise("LinAlgError", "not positive definite")
            ELSE
            LET l22 == RSqrt(p2)
                l32 == RDiv(RSub(G[3][2], RMul(l31, l21)), l22)
                p3  == RSub(RSub(G[3][3], RMul(l31, l31)), RMul(l32, l32))
            IN  IF ~RLt(RInt(0), p3)
                THEN Raise("LinAlgError", "not positive definite")
                ELSE [tag |-> "matrix",
                      m |-> << <<l11, RInt(0), RInt(0)>>,
                               <<l21, l22, RInt(0)>>,
                               <<l31, l32, RSqrt(p3)>> >>]

\* whether every pivot met by Cholesky(G) has a rational square root
CholeskyExact(G) ==
    /\ HasRSqrt(G[1][1])
    /\ RLt(RInt(0), G[1][1]) =>
        LET l11 == RSqrt(G[1][1])
            l21 == RDiv(G[2][1], l11)
            l31 == RDiv(G[3][1], l11)
            p2  == RSub(G[2][2], RMul(l21, l21))
        IN  /\ (RLe(p2, RInt(0)) \/ HasRSqrt(p2))
            /\ RLt(RInt(0), p2) =>
                LET l22 == RSqrt(p2)
                    l32 == RDiv(RSub(G[3][2], RMul(l31, l21)), l22)
                    p3  == RSub(RSub(G[3][3], RMul(l31, l31)), RMul(l32, l32))
                IN  RLe(p3, RInt(0)) \/ HasRSqrt(p3)

\* ZS[0] *= -1 left out
NegateRow0_Skip(M) == M

\* ZS[0] *= -1
NegateRow0(M) == [i \in Idx |-> [j \in Idx |-> IF i = 1 THEN RNeg(M[i][j]) ELSE M[i][j]]]

\* Z[0] *= -1
NegateFirst(Z) == [i \in Idx |-> IF i = 1 THEN RNeg(Z[i]) ELSE Z[i]]

\* decompose_transform(A) for A = [RZS | T; 0 0 0 1]
DecomposeTransform(RZS, T) ==
    LET ch == Cholesky(MatMul(Transpose(RZS), RZS))
    IN  IF IsRaise(ch) THEN ch
        ELSE
        LET ZS == Transpose(ch.m)
            Z == [i \in Idx |-> ZS[i][i]]
            shears == [i \in Idx |-> [j \in Idx |-> RDiv(ZS[i][j], Z[i])]]
            S == << shears[1][2], shears[1][3], shears[2][3] >>
            R == MatMul(RZS, Inv(ZS))
        IN  IF RLt(Det(R), RInt(0))
            THEN [tag |-> "decomposition", T |-> T,
                  R |-> MatMul(RZS, Inv(NegateRow0(ZS))),
                  Z |-> NegateFirst(Z), S |-> S]
            ELSE [tag |-> "decomposition", T |-> T, R |-> R, Z |-> Z, S |-> S]

\* ---------------------------------------------- output_shape_for_transform
\* the 8 corners product((0, s_x), (0, s_y), (0, s_z)) of input_shape[::-1]
Corners(input_shape) ==
    {<<x, y, z>> : x \in {0, input_shape[3]}, y \in {0, input_shape[2]},
                   z \in {0, input_shape[1]}}

\* row i of (t @ coord) for one corner; the appended homogeneous entry is 0
TransformRow(t, i, corner) ==
    RAdd(RAdd(RAdd(RMul(t[i][1], RInt(corner[1])), RMul(t[i][2], RInt(corner[2]))),
              RMul(t[i][3], RInt(corner[3]))),
         RMul(t[i][4], RInt(0)))

\* numpy.ptp along the corners, row i
Ptp(t, i, corners) ==
    LET vals == {TransformRow(t, i, c) : c \in corners}
        hi == CHOOSE v \in vals : \A w \in vals : RLe(w, v)
        lo == CHOOSE v \in vals : \A w \in vals : RLe(v, w)
    IN  RSub(hi, lo)

\* tuple(int(v) for v in ptp[::-1]) without the reversal
ReverseXYZ_None(p) == p

\* ptp[::-1]
ReverseXYZ(p) == << p[3], p[2], p[1] >>

\* output_shape_for_transform(T, input_shape)
OutputShapeForTransform(t, input_shape) ==
    LET corners == Corners(input_shape)
        ptp == [i \in Idx |-> RCeil(Ptp(t, i, corners))]
    IN  ReverseXYZ(ptp)

\* ------------------------------------------------------------ input sets
Shapes(lo, hi) == {<<z, r, c>> : z \in lo..hi, r \in lo..hi, c \in lo..hi}

\* the top three rows [M | t] of a 4x4 homogeneous matrix (last row 0 0 0 1)
Affine(M, t) == [i \in Idx |-> <<M[i][1], M[i][2], M[i][3], RInt(t[i])>>]
LinearBlock(A) == [i \in Idx |-> <<A[i][1], A[i][2], A[i][3]>>]
Translation(A) == [i \in Idx |-> A[i][4]]

IdentityT == Affine(Identity3, <<0, 0, 0>>)

\* orthogonal matrices with rational entries, of determinant +1 and -1
Orthogonals ==
    { Identity3,
      IntMat(<< <<-1, 0, 0>>, <<0, 1, 0>>, <<0, 0, 1>> >>),
      IntMat(<< <<0, 1, 0>>, <<0, 0, 1>>, <<1, 0, 0>> >>),
      IntMat(<< <<0, 1, 0>>, <<1, 0, 0>>, <<0, 0, 1>> >>),
      << <<Rat(3, 5), Rat(-4, 5), RInt(0)>>,
         <<Rat(4, 5), Rat(3, 5), RInt(0)>>,
         <<RInt(0), RInt(0), RInt(1)>> >>,
      << <<Rat(3, 5), Rat(4, 5), RInt(0)>>,
         <<Rat(4, 5), Rat(-3, 5), RInt(0)>>,
         <<RInt(0), RInt(0), RInt(1)>> >> }

\* upper-triangular zoom/shear factors, and singular ones with a zero zoom
UpperFactors ==
    { IntMat(<< <<z1, a, b>>, <<0, z2, c>>, <<0, 0, z3>> >>) :
        z1 \in 1..MaxZoom, z2 \in 1..MaxZoom, z3 \in 1..MaxZoom,
        a \in (-MaxShear)..MaxShear, b \in {-MaxShear, 0}, c \in {0, MaxShear} }
    \cup { IntMat(<< <<z1, 1, 0>>, <<0, z2, -1>>, <<0, 0, z3>> >>) :
        z1 \in 0..1, z2 \in 0..1, z3 \in 0..1 }

\* linear blocks whose Gram matrix has a rational Cholesky factor
DecomposeBlocks ==
    { M \in {MatMul(Q, U) : Q \in Orthogonals, U \in UpperFactors} :
        CholeskyExact(MatMul(Transpose(M), M)) }

DecomposeInputs == {Affine(M, <<1, -2, 3>>) : M \in DecomposeBlocks}

\* transforms for the output shape computation (entries in halves)
ShapeMatrices ==
    { IdentityT,
      Affine(Identity3, <<5, -7, 2>>),
      Affine([i \in Idx |-> [j \in Idx |-> IF i = j THEN Rat(1, 2) ELSE RInt(0)]], <<0, 0, 0>>),
      Affine([i \in Idx |-> [j \in Idx |-> IF i = j THEN Rat(3, 2) ELSE RInt(0)]], <<1, 1, 1>>),
      Affine(IntMat(<< <<0, 0, 1>>, <<0, 1, 0>>, <<1, 0, 0>> >>), <<0, 0, 0>>),
      Affine(IntMat(<< <<0, -1, 0>>, <<1, 0, 0>>, <<0, 0, 2>> >>), <<0, 3, 0>>),
      Affine(<< <<RInt(1), Rat(1, 2), RInt(0)>>,
                <<RInt(0), RInt(1), Rat(-1, 2)>>,
                <<RInt(0), RInt(0), RInt(1)>> >>, <<0, 0, 0>>) }

ChunkShapes(hi) ==
    {IntVal(k) : k \in 1..hi} \cup {TupleVal(t) : t \in Shapes(1, hi)}

PadMaxDim == 3 * MaxChunk   \* largest dim drawn for _pad_amount: several loop rounds

\* ------------------------------------------------------------------- state
VARIABLES
    call,            \* the entry point being executed
    pc,              \* position in its body
    ret,             \* its outcome: a returned value or a raised exception
    dtype,           \* argument dtype / A.dtype
    method,          \* argument method / interp_method
    preserve_dtype,  \* argument preserve_dtype
    A_is_cupy,       \* cupy.get_array_module(A) == cupy
    matrix,          \* argument A of decompose_transform / T elsewhere
    shape,           \* input_shape / A.shape / (z, r, c)
    chunk_shape,     \* chunk_shape / chunk_size: an int or a 3-tuple
    out_shp,         \* argument and local out_shp: None or a shape
    dim, chunk_dim, n,                    \* _pad_amount: arguments and multiplier
    E_shape, S_shape, C_shape, N_shape,   \* shapes of the blend operands
    launches,        \* kernel launches made, in order
    kernel, out, chunks,                  \* locals of _transform_distributed
    device_count,    \* what cupy.cuda.runtime.getDeviceCount() returns
    n_gpu, executor, manager, gpu_queue, gpu_id,
    tasks,           \* chunk tasks submitted to the executor
    writes           \* regions of the output array written by tasks

vars == << call, pc, ret, dtype, method, preserve_dtype, A_is_cupy, matrix, shape,
           chunk_shape, out_shp, dim, chunk_dim, n, E_shape, S_shape, C_shape,
           N_shape, launches, kernel, out, chunks, device_count, n_gpu, executor,
           manager, gpu_queue, gpu_id, tasks, writes >>

coordLocals == << kernel, out, chunks, n_gpu, executor, manager, gpu_queue, gpu_id,
                  tasks, writes >>
inputs == << call, dtype, method, preserve_dtype, A_is_cupy, matrix, shape,
             chunk_shape, dim, chunk_dim, E_shape, S_shape, C_shape, N_shape,
             device_count >>

\* values of the variables an entry point does not use
DefaultKernelArgs == dtype = "uint16" /\ method = "linear" /\ preserve_dtype = FALSE
DefaultGeometry ==
    /\ matrix = IdentityT /\ shape = <<1, 1, 1>> /\ chunk_shape = IntVal(1)
    /\ out_shp = None /\ A_is_cupy = TRUE /\ device_count = 1
DefaultPad == dim = 1 /\ chunk_dim = 1
DefaultBlend ==
    /\ E_shape = <<1, 1, 1>> /\ S_shape = <<1, 1, 1>>
    /\ C_shape = <<1, 1, 1>> /\ N_shape = <<1, 1, 1>>

\* the state before the first statement of the called function
Fresh ==
    /\ ret = None /\ n = 0 /\ launches = << >>
    /\ kernel = None /\ out = None /\ chunks = None
    /\ n_gpu = 0 /\ executor = FALSE /\ manager = FALSE
    /\ gpu_queue = << >> /\ gpu_id = 0 /\ tasks = << >> /\ writes = << >>

InitGetKernel ==
    /\ call = "get_kernel" /\ pc = "start"
    /\ dtype \in DTypes /\ method \in Methods /\ preserve_dtype \in BOOLEAN
    /\ DefaultGeometry /\ DefaultPad /\ DefaultBlend

InitDecompose ==
    /\ call = "decompose" /\ pc = "start"
    /\ matrix \in DecomposeInputs
    /\ shape = <<1, 1, 1>> /\ chunk_shape = IntVal(1) /\ out_shp = None
    /\ A_is_cupy = TRUE /\ device_count = 1
    /\ DefaultKernelArgs /\ DefaultPad /\ DefaultBlend

InitOutputShape ==
    /\ call = "output_shape" /\ pc = "start"
    /\ matrix \in ShapeMatrices /\ shape \in Shapes(0, MaxDim)
    /\ chunk_shape = IntVal(1) /\ out_shp = None
    /\ A_is_cupy = TRUE /\ device_count = 1
    /\ DefaultKernelArgs /\ DefaultPad /\ DefaultBlend

InitPadAmount ==
    /\ call = "pad_amount" /\ pc = "pad_assert"
    /\ dim \in 0..PadMaxDim /\ chunk_dim \in 1..MaxChunk
    /\ DefaultKernelArgs /\ DefaultGeometry /\ DefaultBlend

InitChunks ==
    /\ call = "chunks" /\ pc = "start"
    /\ \/ shape \in Shapes(1, MaxDim) /\ chunk_shape \in ChunkShapes(MaxChunk)
       \/ shape = Scenario.shape /\ chunk_shape = IntVal(Scenario.chunk)
    /\ matrix = IdentityT /\ out_shp = None /\ A_is_cupy = TRUE /\ device_count = 1
    /\ DefaultKernelArgs /\ DefaultPad /\ DefaultBlend

InitMaxBlend ==
    /\ call = "maxblend" /\ pc = "start"
    /\ method \in Methods
    /\ E_shape \in Shapes(1, 2) /\ N_shape \in Shapes(1, 2)
    /\ S_shape = <<1, 1, 1>> /\ C_shape = <<1, 1, 1>>
    /\ dtype = "uint16" /\ preserve_dtype = FALSE
    /\ DefaultGeometry /\ DefaultPad

InitMeanBlend ==
    /\ call = "meanblend" /\ pc = "start"
    /\ method \in Methods
    /\ S_shape \in Shapes(1, 2) /\ C_shape \in {<<1, 1, 1>>, <<1, 2, 1>>, <<2, 2, 2>>}
    /\ N_shape \in {<<1, 1, 1>>, <<1, 2, 1>>, <<2, 2, 2>>}
    /\ E_shape = <<1, 1, 1>>
    /\ dtype = "uint16" /\ preserve_dtype = FALSE
    /\ DefaultGeometry /\ DefaultPad

\* A.shape and T when out_shp is left to be computed
CoordInputShapes == {<<1, 2, MaxCoordDim>>, <<MaxCoordDim, 1, 1>>}
CoordMatrices ==
    {IdentityT, Affine(IntMat(<< <<0, 0, 1>>, <<0, 1, 0>>, <<1, 0, 0>> >>), <<0, 0, 0>>)}

\* chunk extents drawn for the coordinator: the least, the largest that fits, one too big
CoordChunkDims == {1, MaxCoordDim, MaxCoordDim + 1}

InitDistributed ==
    /\ call = "distributed" /\ pc = "d_check"
    /\ \/ /\ A_is_cupy = TRUE
          /\ dtype \in DTypes /\ method \in Methods /\ preserve_dtype \in BOOLEAN
          /\ \/ out_shp = None /\ shape \in CoordInputShapes /\ matrix \in CoordMatrices
             \/ out_shp \in {TupleVal(<<z, r, c>>) : z \in {1, MaxCoordDim},
                                   r \in {1, MaxCoordDim}, c \in {1, MaxCoordDim}}
                /\ shape = <<1, 1, 1>> /\ matrix = IdentityT
          /\ chunk_shape \in {TupleVal(<<z, r, c>>) : z \in CoordChunkDims,
                                      r \in CoordChunkDims, c \in CoordChunkDims}
          /\ device_count \in 1..MaxGpu
       \/ /\ A_is_cupy = FALSE
          /\ dtype \in DTypes /\ method \in Methods /\ preserve_dtype \in BOOLEAN
          /\ out_shp = None /\ shape \in CoordInputShapes /\ matrix = IdentityT
          /\ chunk_shape = TupleVal(<<1, 1, 1>>)
          /\ device_count = 1
    /\ DefaultPad /\ DefaultBlend

InitTransformChunk ==
    /\ call = "transform_chunk" /\ pc = "start"
    /\ DefaultKernelArgs /\ DefaultGeometry /\ DefaultPad /\ DefaultBlend

Init ==
    /\ Fresh
    /\ \/ InitGetKernel \/ InitDecompose \/ InitOutputShape \/ InitPadAmount
       \/ InitChunks \/ InitMaxBlend \/ InitMeanBlend \/ InitDistributed
       \/ InitTransformChunk

\* ----------------------------------------------------------------- actions
\* a call of _get_kernel(dtype, method, preserve_dtype)
GetKernelCall ==
    /\ call = "get_kernel" /\ pc = "start"
    /\ ret' = GetKernel(dtype, method, preserve_dtype)
    /\ pc' = "done"
    /\ UNCHANGED << inputs, out_shp, n, launches, coordLocals >>

\* a call of decompose_transform(A)
DecomposeCall ==
    /\ call = "decompose" /\ pc = "start"
    /\ ret' = DecomposeTransform(LinearBlock(matrix), Translation(matrix))
    /\ pc' = "done"
    /\ UNCHANGED << inputs, out_shp, n, launches, coordLocals >>

\* a call of output_shape_for_transform(T, input_shape)
OutputShapeCall ==
    /\ call = "output_shape" /\ pc = "start"
    /\ ret' = TupleVal(OutputShapeForTransform(matrix, shape))
    /\ pc' = "done"
    /\ UNCHANGED << inputs, out_shp, n, launches, coordLocals >>

\* a call of _calculate_array_chunks(z, r, c, chunk_shape)
CalculateArrayChunksCall ==
    /\ call = "chunks" /\ pc = "start"
    /\ ret' = CalculateArrayChunks(shape[1], shape[2], shape[3], chunk_shape)
    /\ pc' = "done"
    /\ UNCHANGED << inputs, out_shp, n, launches, coordLocals >>

\* _pad_amount: the assert and n = 1
PadAssert ==
    /\ call = "pad_amount" /\ pc = "pad_assert"
    /\ IF PadAssertOk(dim, chunk_dim)
       THEN n' = 1 /\ pc' = "pad_loop" /\ ret' = ret
       ELSE n' = n /\ pc' = "done"
            /\ ret' = Raise("AssertionError", <<dim, chunk_dim>>)
    /\ UNCHANGED << inputs, out_shp, launches, coordLocals >>

\* _pad_amount: one round of the while loop, n += 1
PadIterate ==
    /\ call = "pad_amount" /\ pc = "pad_loop"
    /\ PadLoopCond(dim, chunk_dim, n)
    /\ n' = n + 1
    /\ UNCHANGED << pc, ret, inputs, out_shp, launches, coordLocals >>

\* _pad_amount: loop exit and return chunk_dim * n - dim
PadReturn ==
    /\ call = "pad_amount" /\ pc = "pad_loop"
    /\ ~PadLoopCond(dim, chunk_dim, n)
    /\ ret' = IntVal(chunk_dim * n - dim)
    /\ pc' = "done"
    /\ UNCHANGED << n, inputs, out_shp, launches, coordLocals >>

\* a kernel launch: kernel(launch_params[0], launch_params[1], args)
Launch(k, args) == [kernel |-> k, args |-> args]

\* maxblend_into_existing with a shape test in front of the launch
MaxBlendResult_Checked(m, E, N) ==
    IF E # N
    THEN [ret |-> Raise("ValueError", "shape mismatch"), launched |-> << >>]
    ELSE [ret |-> None,
          launched |-> << Launch(Kernel(IF m = "linear" THEN "linear" ELSE "cubspl",
                                        "affineTransformMaxBlend"),
                                 << "E", "N", "T", E, N >>) >>]

\* maxblend_into_existing(E, N, T, interp_method, launch_params)
MaxBlendResult(m, E, N) ==
    [ret |-> None,
     launched |-> << Launch(Kernel(IF m = "linear" THEN "linear" ELSE "cubspl",
                                   "affineTransformMaxBlend"),
                            << "E", "N", "T", E, N >>) >>]

\* meanblend_into_existing(S, C, N, T, interp_method, launch_params)
MeanBlendResult(m, S, C, N) ==
    IF m = "linear" \/ m = "cubspl"
    THEN [ret |-> None,
          launched |-> << Launch(Kernel(m, "affineTransformMeanBlend"),
                                 << "S", "C", "N", "T", S, N >>) >>]
    ELSE [ret |-> Raise("ValueError", "invalid interpolation method"), launched |-> << >>]

\* a call of maxblend_into_existing
MaxBlendCall ==
    /\ call = "maxblend" /\ pc = "start"
    /\ ret' = MaxBlendResult(method, E_shape, N_shape).ret
    /\ launches' = launches \o MaxBlendResult(method, E_shape, N_shape).launched
    /\ pc' = "done"
    /\ UNCHANGED << inputs, out_shp, n, coordLocals >>

\* a call of meanblend_into_existing
MeanBlendCall ==
    /\ call = "meanblend" /\ pc = "start"
    /\ ret' = MeanBlendResult(method, S_shape, C_shape, N_shape).ret
    /\ launches' = launches \o MeanBlendResult(method, S_shape, C_shape, N_shape).launched
    /\ pc' = "done"
    /\ UNCHANGED << inputs, out_shp, n, coordLocals >>

\* ------------------------------------------------ _transform_distributed
\* _transform_chunk(A, out, T, interp_method, preserve_dtype, block_size, chunk):
\* the body is raise NotImplementedError()
TransformChunkCall ==
    /\ call = "transform_chunk" /\ pc = "start"
    /\ ret' = Raise("NotImplementedError", "")
    /\ pc' = "done"
    /\ UNCHANGED << inputs, out_shp, n, launches, coordLocals >>

\* if cupy.get_array_module(A) == cupy: ... (no else branch: returns None)
DistCheckModule ==
    /\ call = "distributed" /\ pc = "d_check"
    /\ pc' = IF A_is_cupy THEN "d_kernel" ELSE "done"
    /\ UNCHANGED << ret, inputs, out_shp, n, launches, coordLocals >>

\* kernel = _get_kernel(A.dtype, interp_method, preserve_dtype); T cast to float32
DistGetKernel ==
    /\ call = "distributed" /\ pc = "d_kernel"
    /\ LET k == GetKernel(dtype, method, preserve_dtype)
       IN  IF IsRaise(k)
           THEN ret' = k /\ pc' = "done" /\ kernel' = kernel
           ELSE ret' = ret /\ pc' = "d_shape" /\ kernel' = k
    /\ UNCHANGED << inputs, out_shp, n, launches, out, chunks, n_gpu, executor,
                    manager, gpu_queue, gpu_id, tasks, writes >>

\* if out_shp is None: out_shp = output_shape_for_transform(T, A.shape)
DistOutShape ==
    /\ call = "distributed" /\ pc = "d_shape"
    /\ out_shp' = IF out_shp = None
                  THEN TupleVal(OutputShapeForTransform(matrix, shape))
                  ELSE out_shp
    /\ pc' = "d_open"
    /\ UNCHANGED << ret, inputs, n, launches, coordLocals >>

\* out = zarr.creation.open_array(out_path, mode='w', shape=out_shp, dtype=out_dtype,
\*                                fill_value=0)
DistOpenOutput ==
    /\ call = "distributed" /\ pc = "d_open"
    /\ out' = [tag |-> "array", shape |-> out_shp.t,
               dtype |-> IF preserve_dtype THEN dtype ELSE "float32"]
    /\ pc' = "d_chunks"
    /\ UNCHANGED << ret, inputs, out_shp, n, launches, kernel, chunks, n_gpu,
                    executor, manager, gpu_queue, gpu_id, tasks, writes >>

\* chunks = _calculate_array_chunks(*out_shp, chunk_size)
DistPlanChunks ==
    /\ call = "distributed" /\ pc = "d_chunks"
    /\ LET w == CalculateArrayChunks(out_shp.t[1], out_shp.t[2], out_shp.t[3], chunk_shape)
       IN  IF IsRaise(w)
           THEN ret' = w /\ pc' = "done" /\ chunks' = chunks
           ELSE ret' = ret /\ pc' = "d_ngpu" /\ chunks' = w
    /\ UNCHANGED << inputs, out_shp, n, launches, kernel, out, n_gpu, executor,
                    manager, gpu_queue, gpu_id, tasks, writes >>

\* n_gpu = cupy.cuda.runtime.getDeviceCount()
DistDeviceCount ==
    /\ call = "distributed" /\ pc = "d_ngpu"
    /\ n_gpu' = device_count
    /\ pc' = "d_pool"
    /\ UNCHANGED << ret, inputs, out_shp, n, launches, kernel, out, chunks, executor,
                    manager, gpu_queue, gpu_id, tasks, writes >>

\* with ProcessPoolExecutor(max_workers=n_gpu, ...) as executor, Manager() as manager:
DistEnterPool ==
    /\ call = "distributed" /\ pc = "d_pool"
    /\ executor' = TRUE /\ manager' = TRUE
    /\ pc' = "d_queue"
    /\ UNCHANGED << ret, inputs, out_shp, n, launches, kernel, out, chunks, n_gpu,
                    gpu_queue, gpu_id, tasks, writes >>

\* gpu_queue = manager.Queue()
DistMakeQueue ==
    /\ call = "distributed" /\ pc = "d_queue"
    /\ gpu_queue' = << >> /\ gpu_id' = 0
    /\ pc' = "d_put"
    /\ UNCHANGED << ret, inputs, out_shp, n, launches, kernel, out, chunks, n_gpu,
                    executor, manager, tasks, writes >>

\* for gpu_id in range(n_gpu): gpu_queue.put(gpu_id)
DistPutGpu ==
    /\ call = "distributed" /\ pc = "d_put"
    /\ gpu_id < n_gpu
    /\ gpu_queue' = Append(gpu_queue, gpu_id)
    /\ gpu_id' = gpu_id + 1
    /\ UNCHANGED << pc, ret, inputs, out_shp, n, launches, kernel, out, chunks, n_gpu,
                    executor, manager, tasks, writes >>

\* the end of the with block, which is the end of the function: the manager is shut
\* down (its queue goes with it), the executor is shut down, None is returned.
\* No statement submits a task to the executor or takes from gpu_queue.
DistExit ==
    /\ call = "distributed" /\ pc = "d_put"
    /\ ~(gpu_id < n_gpu)
    /\ manager' = FALSE /\ executor' = FALSE /\ gpu_queue' = << >>
    /\ pc' = "done"
    /\ UNCHANGED << ret, inputs, out_shp, n, launches, kernel, out, chunks, n_gpu,
                    gpu_id, tasks, writes >>

Next ==
    \/ GetKernelCall
    \/ DecomposeCall
    \/ OutputShapeCall
    \/ CalculateArrayChunksCall
    \/ PadAssert
    \/ PadIterate
    \/ PadReturn
    \/ MaxBlendCall
    \/ MeanBlendCall
    \/ TransformChunkCall
    \/ DistCheckModule
    \/ DistGetKernel
    \/ DistOutShape
    \/ DistOpenOutput
    \/ DistPlanChunks
    \/ DistDeviceCount
    \/ DistEnterPool
    \/ DistMakeQueue
    \/ DistPutGpu
    \/ DistExit

Spec == Init /\ [][Next]_vars

\* The chunk planner alone.  Its steps are sequential statements of one python
\* call, which the interpreter keeps executing: weak fairness on each of them.
InitPlanner == Fresh /\ (InitPadAmount \/ InitChunks)

NextPlanner ==
    \/ PadAssert
    \/ PadIterate
    \/ PadReturn
    \/ CalculateArrayChunksCall

PlannerSpec == InitPlanner /\ [][NextPlanner]_vars /\ WF_vars(NextPlanner)

\* ================================================================== claims
Done(c) == call = c /\ pc = "done"
CeilDiv(a, b) == -((-a) \div b)

\* the chunk size fits the shape on every axis: 1 <= chunk[axis] <= shape[axis]
ChunkFits(sh, cs) == \A i \in 1..3 : 1 <= cs[i] /\ cs[i] <= sh[i]

Voxels(sh) == (0..(sh[1] - 1)) \X (0..(sh[2] - 1)) \X (0..(sh[3] - 1))
InWindow(v, win) == \A i \in 1..3 : win[i].start <= v[i] /\ v[i] < win[i].stop

\* windows w tile shape sh exactly once, inside the shape, none wider than cs
Tiles(sh, cs, w) ==
    /\ \A v \in Voxels(sh) :
          Cardinality({k \in DOMAIN w : InWindow(v, w[k])}) = 1
    /\ \A k \in DOMAIN w : \A i \in 1..3 :
          /\ 0 <= w[k][i].start
          /\ w[k][i].stop <= sh[i]
          /\ w[k][i].stop - w[k][i].start <= cs[i]

\* C1: for every shape and every chunk shape (int or 3-tuple) with
\* 1 <= chunk[axis] <= shape[axis], the windows of _calculate_array_chunks contain
\* every voxel of the shape exactly once, no window reaches past the shape and no
\* window is wider than the chunk size; shape (10,10,10) with chunk 4 gives 27
\* windows, [0,4), [4,8), [8,10) on each axis.
C1_ChunkCoverage ==
    /\ (Done("chunks") /\ ChunkFits(shape, ChunkTuple(chunk_shape))) =>
          /\ ret.tag = "windows"
          /\ Tiles(shape, ChunkTuple(chunk_shape), ret.w)
          /\ (shape = Scenario.shape /\ chunk_shape = IntVal(Scenario.chunk)) =>
                /\ Len(ret.w) = 27
                /\ \A i \in 1..3 :
                      {<<ret.w[k][i].start, ret.w[k][i].stop>> : k \in DOMAIN ret.w}
                          = {<<0, 4>>, <<4, 8>>, <<8, 10>>}
    /\ (call = "distributed" /\ chunks.tag = "windows") =>
          Tiles(out.shape, ChunkTuple(chunk_shape), chunks.w)

C1_Witness ==
    /\ Done("chunks") /\ shape = Scenario.shape /\ chunk_shape = IntVal(Scenario.chunk)
    /\ ret.tag = "windows" /\ Len(ret.w) = 27

\* identifiers held by running chunk tasks
HeldIds == {tasks[i].gpu : i \in {j \in DOMAIN tasks : tasks[j].state = "running"}}

\* C2: in a run of the distributed coordinator no two running chunk tasks hold the
\* same device identifier, identifiers held plus identifiers in the pool number
\* device_count once the pool is filled, and every chunk task takes an identifier
\* from the pool for its work and returns it afterwards.
C2_DevicePoolDiscipline ==
    call = "distributed" =>
        /\ \A i, j \in DOMAIN tasks :
              (i # j /\ tasks[i].state = "running" /\ tasks[j].state = "running")
                  => tasks[i].gpu # tasks[j].gpu
        /\ (manager /\ pc = "d_put" /\ gpu_id = n_gpu) =>
              Cardinality(HeldIds) + Len(gpu_queue) = device_count
        /\ (pc = "done" /\ chunks.tag = "windows") =>
              \A k \in DOMAIN chunks.w :
                  \E i \in DOMAIN tasks :
                      /\ tasks[i].chunk = k
                      /\ tasks[i].state = "finished"
                      /\ tasks[i].gpu \in 0..(n_gpu - 1)

\* C3: a run of the distributed coordinator that ends without a failure has
\* submitted exactly one task per chunk window and every window of the output
\* array has been written exactly once.
C3_OneTaskPerWindow ==
    (Done("distributed") /\ A_is_cupy /\ ret = None /\ chunks.tag = "windows") =>
        \A k \in DOMAIN chunks.w :
            /\ Cardinality({i \in DOMAIN tasks : tasks[i].chunk = k}) = 1
            /\ Cardinality({j \in DOMAIN writes : writes[j] = chunks.w[k]}) = 1

FloatKernels ==
    {At(nearest_ker_names, 1), At(linear_ker_names, 1), At(cubspl_ker_names, 1)}

\* C4: for float32 input and every method in nearest, linear, cubspl, _get_kernel
\* returns that method's <float> kernel whatever preserve_dtype is.
C4_Float32KernelAlways ==
    (Done("get_kernel") /\ dtype = "float32"
        /\ method \in {"nearest", "linear", "cubspl"}) =>
        /\ ret.tag = "kernel"
        /\ ret.module = method
        /\ ret.name \in FloatKernels

\* C5: for every unrecognized method and every unrecognized element type
\* _get_kernel raises an error; it returns neither a kernel nor None.
C5_UnknownSelectionRaises ==
    (Done("get_kernel")
        /\ (method \notin {"nearest", "linear", "cubspl"}
            \/ dtype \notin {"uint16", "float32"})) =>
        ret.tag = "raise"

ChunkTooBig(sh, cs) == \E i \in 1..3 : cs[i] > sh[i]

\* C7: chunk planning raises AssertionError and returns no windows whenever a
\* chunk dimension exceeds the shape dimension; in the distributed coordinator
\* the error ends the run before the device count is read, the worker pool and
\* the manager are entered, the queue is filled or a task is submitted.
C7_OversizeChunkAsserts ==
    /\ (Done("chunks") /\ ChunkTooBig(shape, ChunkTuple(chunk_shape))) =>
          (ret.tag = "raise" /\ ret.exc = "AssertionError")
    /\ (Done("pad_amount") /\ chunk_dim > dim) =>
          (ret.tag = "raise" /\ ret.exc = "AssertionError")
    /\ (call = "distributed" /\ out.tag = "array" /\ pc # "d_chunks"
            /\ ChunkTooBig(out.shape, ChunkTuple(chunk_shape))) =>
          /\ pc = "done" /\ ret.tag = "raise" /\ ret.exc = "AssertionError"
          /\ chunks = None
          /\ n_gpu = 0 /\ ~executor /\ ~manager
          /\ gpu_queue = << >> /\ gpu_id = 0 /\ tasks = << >>

C7_Witness ==
    /\ Done("distributed") /\ ret.tag = "raise" /\ ret.exc = "AssertionError"
    /\ out.tag = "array"

\* C8: for the identity matrix output_shape_for_transform returns the input
\* shape, in the same (Z, Y, X) order, for every shape of non-negative integers.
C8_IdentityKeepsShape ==
    (Done("output_shape") /\ matrix = IdentityT) => ret = TupleVal(shape)

C8_Witness ==
    /\ Done("output_shape") /\ matrix = IdentityT
    /\ shape[1] # shape[3] /\ shape[2] = 0

Diag(Z) == [i \in Idx |-> [j \in Idx |-> IF i = j THEN Z[i] ELSE RInt(0)]]
\* unit upper-triangular matrix with S as its off-diagonal entries
ShearMatrix(S) ==
    << <<RInt(1), S[1], S[2]>>, <<RInt(0), RInt(1), S[3]>>,
       <<RInt(0), RInt(0), RInt(1)>> >>
SameMatrix(A, B) == \A i \in Idx : \A j \in Idx : A[i][j] = B[i][j]

\* C9: for an affine matrix with invertible linear block RZS, decompose_transform
\* returns (T, R, Z, S) with R . diag(Z) . ShearMatrix(S) = RZS and det(R) = +1,
\* also when the first zoom and the first row of ZS were negated.
C9_DecomposeRoundTrip ==
    (Done("decompose") /\ Det(LinearBlock(matrix)) # RInt(0)) =>
        /\ ret.tag = "decomposition"
        /\ SameMatrix(MatMul(MatMul(ret.R, Diag(ret.Z)), ShearMatrix(ret.S)),
                      LinearBlock(matrix))
        /\ Det(ret.R) = RInt(1)
        /\ ret.T = Translation(matrix)

C9_Witness ==
    /\ Done("decompose") /\ RLt(Det(LinearBlock(matrix)), RInt(0))
    /\ ret.tag = "decomposition" /\ RLt(ret.Z[1], RInt(0))
    /\ ret.S # << RInt(0), RInt(0), RInt(0) >>

\* what _pad_amount returned is the least p >= 0 making dim + p a multiple
PadIsMinimal(d, cd, p) ==
    /\ 0 <= p /\ p < cd
    /\ (d + p) % cd = 0
    /\ \A q \in 0..(p - 1) : (d + q) % cd # 0

C10_PadInv ==
    /\ (Done("pad_amount") /\ dim >= chunk_dim) =>
          (ret.tag = "int" /\ PadIsMinimal(dim, chunk_dim, ret.v))
    /\ (call = "pad_amount" /\ pc = "pad_loop") => chunk_dim * (n - 1) < dim
    /\ (Done("chunks") /\ ChunkFits(shape, ChunkTuple(chunk_shape))) =>
          /\ ret.tag = "windows"
          /\ \A i \in 1..3 :
                Cardinality({ret.w[k][i].start : k \in DOMAIN ret.w})
                    = CeilDiv(shape[i], ChunkTuple(chunk_shape)[i])
          /\ \A k \in DOMAIN ret.w : \A i \in 1..3 :
                ret.w[k][i].start < ret.w[k][i].stop

\* C10: for dim >= chunk_dim >= 1 the loop of _pad_amount terminates and returns
\* the least p with 0 <= p < chunk_dim and dim + p a multiple of chunk_dim (p = 0
\* when dim is a multiple already); the planner then has ceil(shape / chunk)
\* chunk indices on each axis and no empty window.
C10_PadMinimalAndTerminates ==
    /\ []C10_PadInv
    /\ (call = "pad_amount" /\ dim >= chunk_dim) ~> (pc = "done" /\ ret.tag = "int")

C10_Witness ==
    /\ Done("pad_amount") /\ ret.tag = "int" /\ ret.v = 0 /\ n > 1

====
